---- MODULE Spec2Model ----
(***************************************************************************)
(* Model of the Quran MCP server's client lifecycle manager                *)
(* (src/src/quran/client.ts), of the session set-up that binds the tool    *)
(* handlers to a client (src/src/index.ts) and of the tool handlers        *)
(* getVerse and getAvailableTranslations (tools.ts).                       *)
(*                                                                         *)
(* JavaScript strings are tuples of one-character strings, so that string  *)
(* concatenation and toLowerCase() are computed, not assumed.              *)
(* A QuranClient object is a record of the options it was constructed     *)
(* with plus `id`, its object identity (the number of the allocation that  *)
(* made it); the object's mutable part, its cached access token, is kept   *)
(* in `tokens`.                                                            *)
(***************************************************************************)
EXTENDS Integers, Sequences, FiniteSets, TLC

(* ------------------------------ bounds -------------------------------- *)

\* Number of QuranClient objects a behaviour may construct.
MaxClients == 3

\* Number of MCP sessions (MyMCP agents) living in the process.
MaxSessions == 2

(* ------------------------- JavaScript values -------------------------- *)

\* `undefined`: its single element is not a character, so it is no string.
Undefined == <<"undefined">>

\* The empty string.
EmptyStr == <<>>

\* The null object reference (`QuranClient | null`).
NullRef ==
    [id |-> 0, clientId |-> Undefined, clientSecret |-> Undefined,
     contentBaseUrl |-> Undefined, authBaseUrl |-> Undefined, language |-> Undefined]

\* The null value of `cachedConfig: string | null`.
NullStr == <<"null">>

\* Truthiness of a string-or-undefined value (the left operand of `||`).
Falsy(v) == v = Undefined \/ v = EmptyStr

\* Conversion of a value inside a template literal.
ToStr(v) == IF v = Undefined THEN <<"u","n","d","e","f","i","n","e","d">> ELSE v

UpperToLower ==
    [c \in {"A","B","C","D","E","F","G","H","I","J","K","L","M",
            "N","O","P","Q","R","S","T","U","V","W","X","Y","Z"} |->
        CASE c = "A" -> "a" [] c = "B" -> "b" [] c = "C" -> "c" [] c = "D" -> "d"
          [] c = "E" -> "e" [] c = "F" -> "f" [] c = "G" -> "g" [] c = "H" -> "h"
          [] c = "I" -> "i" [] c = "J" -> "j" [] c = "K" -> "k" [] c = "L" -> "l"
          [] c = "M" -> "m" [] c = "N" -> "n" [] c = "O" -> "o" [] c = "P" -> "p"
          [] c = "Q" -> "q" [] c = "R" -> "r" [] c = "S" -> "s" [] c = "T" -> "t"
          [] c = "U" -> "u" [] c = "V" -> "v" [] c = "W" -> "w" [] c = "X" -> "x"
          [] c = "Y" -> "y" [] c = "Z" -> "z"]

\* String.prototype.toLowerCase on the characters the model uses.
toLowerCase(s) ==
    [i \in 1..Len(s) |-> IF s[i] \in DOMAIN UpperToLower THEN UpperToLower[s[i]] ELSE s[i]]

(* ------------------------- client.ts constants ------------------------ *)

\* QuranEnvironment.PRODUCTION = "production"
PRODUCTION == <<"p","r","o","d","u","c","t","i","o","n">>

\* QuranEnvironment.PRE_PRODUCTION = "pre-production"
PRE_PRODUCTION == <<"p","r","e","-","p","r","o","d","u","c","t","i","o","n">>

\* Language.ENGLISH of the SDK.
ENGLISH == <<"e","n">>

ProdContentUrl ==
    <<"h","t","t","p","s",":","/","/","a","p","i","s",".",
      "q","u","r","a","n",".","f","o","u","n","d","a","t","i","o","n">>

ProdAuthUrl ==
    <<"h","t","t","p","s",":","/","/","o","a","u","t","h","2",".",
      "q","u","r","a","n",".","f","o","u","n","d","a","t","i","o","n">>

PreContentUrl ==
    <<"h","t","t","p","s",":","/","/","a","p","i","s","-","p","r","e","l","i","v","e",".",
      "q","u","r","a","n",".","f","o","u","n","d","a","t","i","o","n">>

PreAuthUrl ==
    <<"h","t","t","p","s",":","/","/","p","r","e","l","i","v","e","-","o","a","u","t","h","2",".",
      "q","u","r","a","n",".","f","o","u","n","d","a","t","i","o","n">>

ENVIRONMENT_CONFIG ==
    (PRODUCTION :> [contentBaseUrl |-> ProdContentUrl, authBaseUrl |-> ProdAuthUrl])
    @@ (PRE_PRODUCTION :> [contentBaseUrl |-> PreContentUrl, authBaseUrl |-> PreAuthUrl])

(* ------------------------------ inputs -------------------------------- *)

\* Credential identifiers; two of them contain the separator and a piece of
\* an environment name, to try the fingerprint for ambiguity.
ClientIds == { <<"a">>, <<"a",":","p","r","e","-">> }

ClientSecrets == { <<"s">>, <<"t">> }

Languages == { Undefined, <<"u","r">> }

\* The values the type QuranEnvironment | undefined admits.
Environments == { Undefined, PRODUCTION, PRE_PRODUCTION }

\* The configurations a typed caller can pass (interface QuranConfig).
Configs ==
    [clientId : ClientIds, clientSecret : ClientSecrets,
     defaultLanguage : Languages, environment : Environments]

\* The history's entry for an operation that takes no configuration.
NoConfig ==
    [clientId |-> Undefined, clientSecret |-> Undefined,
     defaultLanguage |-> Undefined, environment |-> Undefined]

(* ------------------------------- state -------------------------------- *)

VARIABLES
    allocated,     \* number of QuranClient objects constructed so far
    tokens,        \* ids of the clients that hold a cached access token
    cachedClient,  \* client.ts: let cachedClient (a client or NullRef)
    cachedConfig,  \* client.ts: let cachedConfig (a string or NullStr)
    procEnv,       \* index.ts: this.env, the bindings of the worker process
    sessions,      \* index.ts: the MyMCP agents and what init() bound in each
    inflight,      \* tool invocations that await their upstream call
    handled,       \* tools.ts: the handler invocation under way or last returned
    last,          \* history: the client.ts operation that ran last
    prev,          \* history: the client.ts operation that ran before `last`
    returned,      \* history: ids of the clients getQuranClient has returned
    stale,         \* history: `returned` as it was at the latest clearClientCache
    cohort         \* history: counts the groups of init() calls that no cache
                   \*          invalidation separates

vars ==
    <<allocated, tokens, cachedClient, cachedConfig, procEnv, sessions, inflight,
      handled, last, prev, returned, stale, cohort>>

cacheVars == <<cachedClient, cachedConfig>>

serverVars == <<procEnv, sessions, inflight, handled>>

(* ----------------------------- client.ts ------------------------------ *)

\* createQuranClient: the object constructed as allocation number `id`, or
\* the TypeError raised by reading a property of `undefined` when the
\* endpoint table has no entry for the environment.
createQuranClient(config, id) ==
    LET environment == IF Falsy(config.environment) THEN PRODUCTION ELSE config.environment
    IN  IF environment \notin DOMAIN ENVIRONMENT_CONFIG
        THEN [threw |-> TRUE, client |-> NullRef]
        ELSE LET envConfig == ENVIRONMENT_CONFIG[environment]
             IN  [threw |-> FALSE,
                  client |-> [id             |-> id,
                              clientId       |-> config.clientId,
                              clientSecret   |-> config.clientSecret,
                              contentBaseUrl |-> envConfig.contentBaseUrl,
                              authBaseUrl    |-> envConfig.authBaseUrl,
                              language       |-> IF Falsy(config.defaultLanguage)
                                                 THEN ENGLISH ELSE config.defaultLanguage]]

\* Variants of getConfigKey with a plausible slip: the secret or the language
\* made part of the key, or the environment left out of it.
getConfigKeyWithSecret(config) ==
    ToStr(config.clientId) \o <<":">> \o ToStr(config.clientSecret) \o <<":">>
        \o ToStr(IF Falsy(config.environment) THEN PRODUCTION ELSE config.environment)

getConfigKeyWithLanguage(config) ==
    ToStr(config.clientId) \o <<":">>
        \o ToStr(IF Falsy(config.environment) THEN PRODUCTION ELSE config.environment)
        \o <<":">> \o ToStr(config.defaultLanguage)

getConfigKeyIdOnly(config) == ToStr(config.clientId)

getConfigKey(config) ==
    ToStr(config.clientId) \o <<":">>
        \o ToStr(IF Falsy(config.environment) THEN PRODUCTION ELSE config.environment)

\* Variant of CacheHit with a slip: the comparison never succeeds.
CacheHitNever(client, key, configKey) == client # NullRef /\ key = Undefined

\* Variant of CacheHit with a slip: any held client counts as a hit.
CacheHitAny(client, key, configKey) == client # NullRef

\* The test `cachedClient && cachedConfig === configKey`.
CacheHit(client, key, configKey) == client # NullRef /\ key = configKey

\* Variant of getQuranClient with a slip: the client built on a miss is
\* returned but not stored.
getQuranClientNoStore(config, n, client, key) ==
    LET configKey == getConfigKey(config)
        made      == createQuranClient(config, n + 1)
    IN  IF CacheHit(client, key, configKey)
        THEN [threw |-> FALSE, built |-> FALSE, ret |-> client,
              allocated |-> n, cachedClient |-> client, cachedConfig |-> key]
        ELSE [threw |-> made.threw, built |-> ~made.threw, ret |-> made.client,
              allocated |-> IF made.threw THEN n ELSE n + 1,
              cachedClient |-> client, cachedConfig |-> key]

\* Variant of getQuranClient with a slip: the client built on a miss is
\* stored but the fingerprint is left as it was.
getQuranClientStaleKey(config, n, client, key) ==
    LET configKey == getConfigKey(config)
        made      == createQuranClient(config, n + 1)
    IN  IF CacheHit(client, key, configKey)
        THEN [threw |-> FALSE, built |-> FALSE, ret |-> client,
              allocated |-> n, cachedClient |-> client, cachedConfig |-> key]
        ELSE IF made.threw
        THEN [threw |-> TRUE, built |-> FALSE, ret |-> NullRef,
              allocated |-> n, cachedClient |-> client, cachedConfig |-> key]
        ELSE [threw |-> FALSE, built |-> TRUE, ret |-> made.client,
              allocated |-> n + 1, cachedClient |-> made.client, cachedConfig |-> key]

\* getQuranClient as a function of the module state: what it returns and
\* the module state it leaves.
getQuranClient(config, n, client, key) ==
    LET configKey == getConfigKey(config)
        made      == createQuranClient(config, n + 1)
    IN  IF CacheHit(client, key, configKey)
        THEN [threw |-> FALSE, built |-> FALSE, ret |-> client,
              allocated |-> n, cachedClient |-> client, cachedConfig |-> key]
        ELSE IF made.threw
        THEN [threw |-> TRUE, built |-> FALSE, ret |-> NullRef,
              allocated |-> n, cachedClient |-> client, cachedConfig |-> key]
        ELSE [threw |-> FALSE, built |-> TRUE, ret |-> made.client,
              allocated |-> n + 1, cachedClient |-> made.client, cachedConfig |-> configKey]

\* Variants of clearClientCache with a slip: only the token is dropped and
\* the entry kept; the entry is dropped without telling the client.
clearClientCacheTokenOnly(tok, client, key) ==
    [tokens |-> IF client # NullRef THEN tok \ {client.id} ELSE tok,
     cleared |-> IF client # NullRef THEN <<client>> ELSE <<>>,
     cachedClient |-> client,
     cachedConfig |-> key]

clearClientCacheNoToken(tok, client, key) ==
    [tokens |-> tok,
     cleared |-> <<>>,
     cachedClient |-> NullRef,
     cachedConfig |-> NullStr]

\* clearClientCache as a function of the module state; `cleared` lists the
\* clients whose clearCachedToken() it called, in call order.
clearClientCache(tok, client, key) ==
    [tokens |-> IF client # NullRef THEN tok \ {client.id} ELSE tok,
     cleared |-> IF client # NullRef THEN <<client>> ELSE <<>>,
     cachedClient |-> NullRef,
     cachedConfig |-> NullStr]

(* ------------------------------ index.ts ------------------------------ *)

Sessions == 1..MaxSessions

\* The two Quran tools init() registers.
Tools == {"getVerse", "getAvailableTranslations"}

\* Variant of quranEnvOf with a slip: the binding is compared as spelled.
quranEnvOfCaseSensitive(selector) ==
    IF selector = PRE_PRODUCTION THEN PRE_PRODUCTION ELSE PRODUCTION

\* init(): the environment chosen from the QURAN_ENV binding;
\* `?.` passes undefined through.
quranEnvOf(selector) ==
    LET quranEnvStr == IF selector = Undefined THEN Undefined ELSE toLowerCase(selector)
    IN  IF quranEnvStr = PRE_PRODUCTION THEN PRE_PRODUCTION ELSE PRODUCTION

\* init(): the configuration passed to getQuranClient.
initConfig(env) ==
    [clientId        |-> env.QURAN_CLIENT_ID,
     clientSecret    |-> env.QURAN_CLIENT_SECRET,
     defaultLanguage |-> ENGLISH,
     environment     |-> quranEnvOf(env.QURAN_ENV)]

\* A session before init() has run.
NoSession == [ready |-> FALSE, quranEnv |-> Undefined, quranClient |-> NullRef, cohort |-> 0]

\* The process without bindings (the module used as a library).
NoEnv ==
    [QURAN_ENV |-> Undefined, QURAN_CLIENT_ID |-> Undefined, QURAN_CLIENT_SECRET |-> Undefined]

(* ------------------------------ tools.ts ------------------------------ *)
(* The text of an envelope is a tuple like every string of the model: the  *)
(* fixed fragments of the template literals are kept as single elements   *)
(* (for instance "**Translations:**\n"), the interpolated data are        *)
(* rendered character by character.  A fragment is longer than one        *)
(* character or is punctuation, so interpolated data never forge a        *)
(* section heading.  The emoji of the headings are left out and the       *)
(* bullet is written "*".                                                 *)

\* An optional array: the property is missing, or it is an array of items.
None == [some |-> FALSE, items |-> <<>>]

Some(items) == [some |-> TRUE, items |-> items]

\* The operator `a || b` on strings.
Or(v, default) == IF Falsy(v) THEN default ELSE v

Digits == <<"0","1","2","3","4","5","6","7","8","9">>

\* Conversion of a non-negative integer inside a template literal.
RECURSIVE DecStr(_)
DecStr(n) ==
    IF n < 10 THEN <<Digits[n + 1]>> ELSE DecStr(n \div 10) \o <<Digits[(n % 10) + 1]>>

\* Fixed fragments the handlers' output is recognised by.
VerseHeading == "**Verse "

ArabicHeading == "**Arabic (Uthmani):**\n"

TranslationsHeading == "**Translations:**\n"

TafsirHeading == "**Tafsir (Commentary):**\n"

WordsHeading == "**Word-by-Word Breakdown:**\n"

VerseErrorHeading == "**Error fetching verse "

CatalogErrorHeading == "**Error fetching translations**\n\nError Type: "

UnknownError == "Unknown error occurred"

\* A value thrown by, or a rejection of, the upstream call.  Reading a
\* property of null or undefined is itself a TypeError.
Nullish(error) == error.kind \in {"null", "undefined"}

TypeError(message) ==
    [kind |-> "Error", message |-> <<message>>, status |-> 0]

\* The promise an async handler returns.
Resolved(envelope) == [settled |-> "resolved", value |-> envelope]

Rejected(error) == [settled |-> "rejected", value |-> error]

\* return { content: [{ type: "text", text }] } with an explicit isError: false.
successEnvelopeWithFlag(text) ==
    [content |-> <<[type |-> "text", text |-> text]>>, isError |-> FALSE]

\* return { content: [{ type: "text", text }] }
successEnvelope(text) == [content |-> <<[type |-> "text", text |-> text]>>]

\* return { content: [{ type: "text", text }], isError: true }
errorEnvelope(text) ==
    [content |-> <<[type |-> "text", text |-> text]>>, isError |-> TRUE]

\* const errorType = error.status || "error"   (status 0 stands for no status)
errorTypeOf(error) == IF error.status = 0 THEN <<"error">> ELSE DecStr(error.status)

\* const errorMessage = error.message || "Unknown error occurred"
errorMessageOf(error) == Or(error.message, <<UnknownError>>)

\* Variant of getVerseRequest with a slip: the commentary ids are passed on
\* whether or not commentary was asked for.
getVerseRequestAlwaysTafsir(params) ==
    [method  |-> "verses.findByKey",
     key     |-> params.verseKey,
     options |-> [translations |-> params.translations,
                  words        |-> params.includeWords,
                  tafsirs      |-> params.tafsirIds,
                  fields       |-> [textUthmani |-> TRUE]]]

\* The arguments getVerse passes to client.verses.findByKey.
getVerseRequest(params) ==
    [method  |-> "verses.findByKey",
     key     |-> params.verseKey,
     options |-> [translations |-> params.translations,
                  words        |-> params.includeWords,
                  tafsirs      |-> IF params.includeTafsir /\ params.tafsirIds.some
                                   THEN params.tafsirIds ELSE None,
                  fields       |-> [textUthmani |-> TRUE]]]

\* The body of verse.translations.forEach's callback.
renderTranslation(translation) ==
    <<"\n*">> \o Or(translation.resourceName, <<"Translation">>) \o <<"* (">>
        \o Or(translation.languageName, <<"N/A">>) \o <<"):\n">>
        \o ToStr(translation.text) \o <<"\n">>

\* verse.translations.forEach(...) appending to the response in order.
RECURSIVE renderTranslations(_)
renderTranslations(items) ==
    IF items = <<>> THEN <<>>
    ELSE renderTranslation(Head(items)) \o renderTranslations(Tail(items))

\* The body of verse.tafsirs.forEach's callback.
renderTafsir(tafsir) ==
    <<"\n*">> \o Or(tafsir.resourceName, <<"Tafsir">>) \o <<"*:\n">>
        \o ToStr(tafsir.text) \o <<"\n">>

\* verse.tafsirs.forEach(...) appending to the response in order.
RECURSIVE renderTafsirs(_)
renderTafsirs(items) ==
    IF items = <<>> THEN <<>> ELSE renderTafsir(Head(items)) \o renderTafsirs(Tail(items))

\* verse.words.forEach((word, index) => ...):
\* `${index + 1}. ${word.textUthmani || word.textImlaei || "N/A"}\n`
RECURSIVE renderWords(_, _)
renderWords(words, index) ==
    IF words = <<>> THEN <<>>
    ELSE DecStr(index + 1) \o <<". ">>
            \o Or(Head(words).textUthmani, Or(Head(words).textImlaei, <<"N/A">>))
            \o <<"\n">> \o renderWords(Tail(words), index + 1)

\* The translation section is printed when translations were asked for.
translationsSectionIfRequested(params, verse) ==
    IF params.translations.some /\ Len(params.translations.items) > 0
    THEN <<TranslationsHeading>> \o renderTranslations(verse.translations.items)
            \o <<"\n">>
    ELSE <<>>

\* if (verse.translations && verse.translations.length > 0) { ... }
translationsSection(params, verse) ==
    IF verse.translations.some /\ Len(verse.translations.items) > 0
    THEN <<TranslationsHeading>> \o renderTranslations(verse.translations.items)
            \o <<"\n">>
    ELSE <<>>

\* if (verse.tafsirs && verse.tafsirs.length > 0) { ... }
tafsirSection(params, verse) ==
    IF verse.tafsirs.some /\ Len(verse.tafsirs.items) > 0
    THEN <<TafsirHeading>> \o renderTafsirs(verse.tafsirs.items) \o <<"\n">>
    ELSE <<>>

\* if (includeWords && verse.words && verse.words.length > 0) { ... }
wordsSection(params, verse) ==
    IF params.includeWords /\ verse.words.some /\ Len(verse.words.items) > 0
    THEN <<WordsHeading>> \o renderWords(verse.words.items, 0)
    ELSE <<>>

\* The metadata block without the page line.
verseMetadataNoPage(verse) ==
    <<"**Metadata:**\n">>
        \o <<"- Chapter: ">> \o DecStr(verse.chapterId) \o <<"\n">>
        \o <<"- Verse Number: ">> \o DecStr(verse.verseNumber) \o <<"\n">>
        \o <<"- Juz: ">> \o DecStr(verse.juzNumber) \o <<"\n\n">>

verseMetadata(verse) ==
    <<"**Metadata:**\n">>
        \o <<"- Chapter: ">> \o DecStr(verse.chapterId) \o <<"\n">>
        \o <<"- Verse Number: ">> \o DecStr(verse.verseNumber) \o <<"\n">>
        \o <<"- Page: ">> \o DecStr(verse.pageNumber) \o <<"\n">>
        \o <<"- Juz: ">> \o DecStr(verse.juzNumber) \o <<"\n\n">>

\* The body of getVerse's try block once findByKey has resolved with an object.
formatVerse(params, verse) ==
    <<VerseHeading>> \o ToStr(verse.verseKey) \o <<"**\n\n">>
        \o <<ArabicHeading>> \o ToStr(verse.textUthmani) \o <<"\n\n">>
        \o verseMetadata(verse)
        \o translationsSection(params, verse)
        \o tafsirSection(params, verse)
        \o wordsSection(params, verse)

\* getVerse's catch block.  `error.message` is evaluated first: when the
\* caught value is null or undefined that read throws inside the catch block,
\* nothing catches it, and the promise of the async function rejects.
getVerseCatch(params, error) ==
    IF Nullish(error)
    THEN Rejected(TypeError("Cannot read properties of null or undefined"))
    ELSE Resolved(errorEnvelope(
            <<VerseErrorHeading>> \o ToStr(params.verseKey) \o <<"**\n\nError Type: ">>
                \o errorTypeOf(error) \o <<"\nMessage: ">> \o errorMessageOf(error)
                \o <<"\n\nPlease check the verse key format (should be 'chapter:verse', e.g., '2:255') and try again.">>))

\* getVerse(client, params), given how client.verses.findByKey settled.  A
\* resolved value that is not an object makes `verse.verseKey` throw inside
\* the try block.
getVerse(params, upstream) ==
    IF upstream.settled = "rejected"
    THEN getVerseCatch(params, upstream.value)
    ELSE IF ~upstream.value.isObject
    THEN getVerseCatch(params, TypeError("Cannot read properties of undefined"))
    ELSE Resolved(successEnvelope(formatVerse(params, upstream.value)))

UpperLetters ==
    <<"A","B","C","D","E","F","G","H","I","J","K","L","M",
      "N","O","P","Q","R","S","T","U","V","W","X","Y","Z">>

LowerLetters ==
    <<"a","b","c","d","e","f","g","h","i","j","k","l","m",
      "n","o","p","q","r","s","t","u","v","w","x","y","z">>

\* String.prototype.charCodeAt on the letters: the UTF-16 code unit.
charCodeAt(c) ==
    IF \E i \in 1..26 : UpperLetters[i] = c
    THEN 64 + (CHOOSE i \in 1..26 : UpperLetters[i] = c)
    ELSE IF \E i \in 1..26 : LowerLetters[i] = c
    THEN 96 + (CHOOSE i \in 1..26 : LowerLetters[i] = c)
    ELSE 0

\* String.prototype.toUpperCase on one character.
toUpperCase(c) ==
    IF \E i \in 1..26 : LowerLetters[i] = c
    THEN UpperLetters[CHOOSE i \in 1..26 : LowerLetters[i] = c]
    ELSE c

\* lang.charAt(0).toUpperCase() + lang.slice(1)
capitalize(s) == IF s = <<>> THEN <<>> ELSE <<toUpperCase(s[1])>> \o Tail(s)

\* The order Array.prototype.sort() puts strings in by default: code unit by
\* code unit, a proper prefix first.
RECURSIVE LexLess(_, _)
LexLess(a, b) ==
    IF b = <<>> THEN FALSE
    ELSE IF a = <<>> THEN TRUE
    ELSE IF charCodeAt(Head(a)) # charCodeAt(Head(b))
    THEN charCodeAt(Head(a)) < charCodeAt(Head(b))
    ELSE LexLess(Tail(a), Tail(b))

\* Fixed fragments of getAvailableTranslations' output.
FilteredHeading == "**Available "

AllHeading == "**All Available Translations** ("

NoneFound == "No translations found"

ForLanguage == " for language: "

TryCommon ==
    ".\n\nTry using common languages like: english, urdu, arabic, spanish, french, turkish, bengali, indonesian, russian, persian"

GroupOpen == "**"

GroupBullet == "  * ID: "

FlatBullet == "* **ID: "

UsageHeading == "\n**Usage Example:**\n"

UsageIntro == "To fetch a verse with translation ID "

UNKNOWN == <<"u","n","k","n","o","w","n">>

\* Names every object inherits from Object.prototype: byLanguage[name] is
\* truthy for them although byLanguage = {} has no such key of its own.
ObjectPrototypeKeys == { <<"c","o","n","s","t","r","u","c","t","o","r">> }

\* The call getAvailableTranslations makes: findAllTranslations().
getAvailableTranslationsRequest(params) ==
    [method |-> "resources.findAllTranslations", arguments |-> <<>>]

\* A filter predicate that compares the names as they are written.
matchesLanguageCaseSensitive(t, language) == t.languageName = language

\* (t) => t.languageName?.toLowerCase() === language.toLowerCase()
matchesLanguage(t, language) ==
    /\ t.languageName # Undefined
    /\ toLowerCase(t.languageName) = toLowerCase(language)

\* let filteredTranslations = allTranslations; if (language) { ...filter... }
filterTranslations(allTranslations, language) ==
    IF Falsy(language) THEN allTranslations
    ELSE SelectSeq(allTranslations, LAMBDA t : matchesLanguage(t, language))

\* The first line of the response.
catalogHeader(language, filteredTranslations) ==
    IF ~Falsy(language)
    THEN <<FilteredHeading>> \o capitalize(language) \o <<" Translations** (">>
            \o DecStr(Len(filteredTranslations)) \o <<" found)\n\n">>
    ELSE <<AllHeading>> \o DecStr(Len(filteredTranslations)) \o <<" total)\n\n">>

\* The branch filteredTranslations.length === 0.
emptyNotice(language) ==
    <<NoneFound>>
        \o (IF ~Falsy(language) THEN <<ForLanguage>> \o language ELSE <<>>)
        \o <<TryCommon>>

\* const lang = t.languageName || "unknown"
groupKey(t) == Or(t.languageName, UNKNOWN)

\* byLanguage[lang].push(...) on an inherited member that is not an array.
groupingThrows(filteredTranslations) ==
    \E i \in 1..Len(filteredTranslations) :
        groupKey(filteredTranslations[i]) \in ObjectPrototypeKeys

\* Object.keys(byLanguage).sort()
RECURSIVE sortKeys(_)
sortKeys(keys) ==
    IF keys = {} THEN <<>>
    ELSE LET k == CHOOSE x \in keys : \A y \in keys : x = y \/ LexLess(x, y)
         IN  <<k>> \o sortKeys(keys \ {k})

\* `  • ID: ${id} - ${name}` + (author ? ` by ${author}` : "") + `\n`
renderGroupEntry(t) ==
    <<GroupBullet>> \o DecStr(t.id) \o <<" - ">> \o ToStr(t.name)
        \o (IF ~Falsy(t.authorName) THEN <<" by ">> \o t.authorName ELSE <<>>)
        \o <<"\n">>

RECURSIVE renderGroupEntries(_)
renderGroupEntries(items) ==
    IF items = <<>> THEN <<>>
    ELSE renderGroupEntry(Head(items)) \o renderGroupEntries(Tail(items))

\* byLanguage[lang]: the entries whose key is lang, in upstream order.
groupOf(filteredTranslations, lang) ==
    SelectSeq(filteredTranslations, LAMBDA t : groupKey(t) = lang)

\* One iteration of Object.keys(byLanguage).sort().forEach(...).
renderGroup(filteredTranslations, lang) ==
    <<GroupOpen>> \o capitalize(lang) \o <<"** (">>
        \o DecStr(Len(groupOf(filteredTranslations, lang))) \o <<" translations):\n">>
        \o renderGroupEntries(groupOf(filteredTranslations, lang)) \o <<"\n">>

RECURSIVE renderGroups(_, _)
renderGroups(filteredTranslations, keys) ==
    IF keys = <<>> THEN <<>>
    ELSE renderGroup(filteredTranslations, Head(keys))
            \o renderGroups(filteredTranslations, Tail(keys))

\* The branch `if (!language)`: group by language, sort the keys, render.
groupedList(filteredTranslations) ==
    renderGroups(filteredTranslations,
        sortKeys({groupKey(filteredTranslations[i]) : i \in 1..Len(filteredTranslations)}))

\* `• **ID: ${id}** - ${name}` + (authorName ? ` by ${authorName}` : "") + `\n`
renderFlatEntry(t) ==
    <<FlatBullet>> \o DecStr(t.id) \o <<"** - ">> \o ToStr(t.name)
        \o (IF ~Falsy(t.authorName) THEN <<" by ">> \o t.authorName ELSE <<>>)
        \o <<"\n">>

RECURSIVE renderFlatEntries(_)
renderFlatEntries(items) ==
    IF items = <<>> THEN <<>>
    ELSE renderFlatEntry(Head(items)) \o renderFlatEntries(Tail(items))

\* The else branch of `if (!language)`.
flatList(filteredTranslations) == renderFlatEntries(filteredTranslations) \o <<"\n">>

\* A usage example built on the last entry.
usageExampleOfLast(filteredTranslations) ==
    LET exampleId == filteredTranslations[Len(filteredTranslations)].id
    IN  <<UsageHeading>> \o <<UsageIntro>> \o DecStr(exampleId) \o <<", use:\n">>
            \o <<"\ngetVerse({ verseKey: '2:255', translations: [">>
            \o DecStr(exampleId) \o <<"] })\n\n">>

\* const exampleId = filteredTranslations[0].id; ...
usageExample(filteredTranslations) ==
    LET exampleId == filteredTranslations[1].id
    IN  <<UsageHeading>> \o <<UsageIntro>> \o DecStr(exampleId) \o <<", use:\n">>
            \o <<"\ngetVerse({ verseKey: '2:255', translations: [">>
            \o DecStr(exampleId) \o <<"] })\n\n">>

\* A body that appends the usage example in the empty branch too.
catalogBodyAlwaysUsage(language, filteredTranslations) ==
    IF Len(filteredTranslations) = 0
    THEN emptyNotice(language) \o <<UsageHeading>>
    ELSE (IF Falsy(language) THEN groupedList(filteredTranslations)
          ELSE flatList(filteredTranslations))
            \o usageExample(filteredTranslations)

\* if (filteredTranslations.length === 0) { ... } else { ... usage example }
catalogBody(language, filteredTranslations) ==
    IF Len(filteredTranslations) = 0
    THEN emptyNotice(language)
    ELSE (IF Falsy(language) THEN groupedList(filteredTranslations)
          ELSE flatList(filteredTranslations))
            \o usageExample(filteredTranslations)

\* getAvailableTranslations' catch block; it reads error.message first, as
\* getVerse's does.
getAvailableTranslationsCatch(error) ==
    IF Nullish(error)
    THEN Rejected(TypeError("Cannot read properties of null or undefined"))
    ELSE Resolved(errorEnvelope(
            <<CatalogErrorHeading>> \o errorTypeOf(error) \o <<"\nMessage: ">>
                \o errorMessageOf(error) \o <<"\n\nPlease try again.">>))

\* getAvailableTranslations(client, params), given how
\* client.resources.findAllTranslations settled.  A resolved value that is no
\* array, and a group key that names an inherited member, throw inside the
\* try block.
getAvailableTranslations(params, upstream) ==
    IF upstream.settled = "rejected"
    THEN getAvailableTranslationsCatch(upstream.value)
    ELSE IF ~upstream.value.some
    THEN getAvailableTranslationsCatch(TypeError("Cannot read properties of undefined"))
    ELSE LET filteredTranslations == filterTranslations(upstream.value.items, params.language)
         IN  IF Falsy(params.language) /\ groupingThrows(filteredTranslations)
             THEN getAvailableTranslationsCatch(
                      TypeError("byLanguage[lang].push is not a function"))
             ELSE Resolved(successEnvelope(
                      catalogHeader(params.language, filteredTranslations)
                          \o catalogBody(params.language, filteredTranslations)))

(* --------------------------- handler inputs --------------------------- *)

\* The longest array an upstream verse carries (translations, tafsirs, words).
MaxItems == 2

\* The longest translation catalogue the upstream returns.
MaxEntries == 3

\* All sequences over S of length at most n.
SeqsUpTo(S, n) == UNION { [1..k -> S] : k \in 0..n }

\* A missing array property, or any array over S of length at most n.
OptionalArrays(S, n) == {None} \cup { Some(items) : items \in SeqsUpTo(S, n) }

VerseKeys == { <<"2",":","2","5","5">>, <<"x">> }

\* The parameters of getVerse after the tool schema filled in its defaults.
GetVerseParams ==
    [verseKey      : VerseKeys,
     translations  : {None, Some(<<>>), Some(<<20>>)},
     includeWords  : BOOLEAN,
     includeTafsir : BOOLEAN,
     tafsirIds     : {None, Some(<<171>>)}]

TranslationItems ==
    { [resourceName |-> <<"S">>, languageName |-> <<"e","n">>, text |-> <<"t">>],
      [resourceName |-> Undefined, languageName |-> Undefined, text |-> <<"v">>] }

TafsirItems == { [resourceName |-> Undefined, text |-> <<"c">>] }

WordItems == { [textUthmani |-> Undefined, textImlaei |-> <<"w">>] }

\* The verses client.verses.findByKey can resolve with.
Verses ==
    [isObject     : {TRUE},
     verseKey     : { <<"2",":","2","5","5">> },
     textUthmani  : { <<"q">> },
     chapterId    : {2},
     verseNumber  : {255},
     pageNumber   : {42},
     juzNumber    : {3},
     translations : OptionalArrays(TranslationItems, MaxItems),
     tafsirs      : OptionalArrays(TafsirItems, MaxItems),
     words        : OptionalArrays(WordItems, MaxItems)]

\* findByKey resolving with undefined.
NotAnObject == [isObject |-> FALSE]

\* What an upstream call can throw or reject with: an Error with a status, an
\* Error without, an object with neither message nor status, null, undefined.
Thrown ==
    { [kind |-> "Error", message |-> <<"n","o">>, status |-> 404],
      [kind |-> "Error", message |-> <<"n","o">>, status |-> 0],
      [kind |-> "object", message |-> Undefined, status |-> 0],
      [kind |-> "null", message |-> Undefined, status |-> 0],
      [kind |-> "undefined", message |-> Undefined, status |-> 0] }

\* The parameters of getAvailableTranslations.
LanguageFilters == { Undefined, EmptyStr, <<"u","r">>, <<"U","R">>, <<"k">> }

GetAvailableTranslationsParams == [language : LanguageFilters]

\* Entries of the upstream catalogue.  Two share a language name, one differs
\* from it in letter case only, one extends it, one has no language name and
\* one is named like an inherited member of every object.
CatalogEntries ==
    { [id |-> 20, name |-> <<"S">>, authorName |-> <<"A">>, languageName |-> <<"u","r">>],
      [id |-> 131, name |-> <<"C">>, authorName |-> Undefined, languageName |-> <<"U","r">>],
      [id |-> 85, name |-> <<"H">>, authorName |-> EmptyStr, languageName |-> <<"u","r","d","u">>],
      [id |-> 7, name |-> <<"M">>, authorName |-> <<"B">>, languageName |-> Undefined],
      [id |-> 9, name |-> <<"K">>, authorName |-> Undefined,
       languageName |-> <<"c","o","n","s","t","r","u","c","t","o","r">>],
      [id |-> 95, name |-> <<"J">>, authorName |-> <<"D">>, languageName |-> <<"u","r">>] }

\* The catalogues findAllTranslations can resolve with: every entry once.
Catalogs ==
    { c \in SeqsUpTo(CatalogEntries, MaxEntries) :
        \A i, j \in 1..Len(c) : i # j => c[i] # c[j] }

\* No handler has been invoked.
NoRun == [tool |-> "none", phase |-> "idle"]

(* ------------------------------ actions ------------------------------- *)

Record(op, config, ret, threw, built, cleared) ==
    [op |-> op, config |-> config, ret |-> ret,
     threw |-> threw, built |-> built, cleared |-> cleared]

\* The spec's cache equivalence: same credential id and same environment,
\* an absent environment counting as PRODUCTION.
EnvOf(config) == IF Falsy(config.environment) THEN PRODUCTION ELSE config.environment

SameTarget(c1, c2) == c1.clientId = c2.clientId /\ EnvOf(c1) = EnvOf(c2)

\* History: an invalidation, or a getQuranClient for another target than the
\* process's own, ends the current group of init() calls.
Disturb(ch) == IF ch.open THEN [no |-> ch.no + 1, open |-> FALSE] ELSE ch

InitCommon ==
    /\ allocated = 0
    /\ tokens = {}
    /\ cachedClient = NullRef
    /\ cachedConfig = NullStr
    /\ sessions = [s \in Sessions |-> NoSession]
    /\ inflight = {}
    /\ handled = NoRun
    /\ last = Record("none", NoConfig, NullRef, FALSE, FALSE, <<>>)
    /\ prev = Record("none", NoConfig, NullRef, FALSE, FALSE, <<>>)
    /\ returned = {}
    /\ stale = {}
    /\ cohort = [no |-> 0, open |-> FALSE]

Init ==
    /\ InitCommon
    /\ procEnv = NoEnv

\* A getQuranClient whose new client exchanges its credentials at once.
GetQuranClientEager(config) ==
    LET r == getQuranClient(config, allocated, cachedClient, cachedConfig)
    IN  /\ r.allocated <= MaxClients
        /\ allocated' = r.allocated
        /\ cachedClient' = r.cachedClient
        /\ cachedConfig' = r.cachedConfig
        /\ last' = Record("get", config, r.ret, r.threw, r.built, <<>>)
        /\ prev' = last
        /\ cohort' = IF SameTarget(config, initConfig(procEnv)) THEN cohort ELSE Disturb(cohort)
        /\ returned' = IF r.threw THEN returned ELSE returned \cup {r.ret.id}
        /\ tokens' = IF r.built THEN tokens \cup {r.ret.id} ELSE tokens
        /\ UNCHANGED <<stale, serverVars>>

\* A caller of the module calls getQuranClient(config).
GetQuranClient(config) ==
    LET r == getQuranClient(config, allocated, cachedClient, cachedConfig)
    IN  /\ r.allocated <= MaxClients
        /\ allocated' = r.allocated
        /\ cachedClient' = r.cachedClient
        /\ cachedConfig' = r.cachedConfig
        /\ last' = Record("get", config, r.ret, r.threw, r.built, <<>>)
        /\ prev' = last
        /\ cohort' = IF SameTarget(config, initConfig(procEnv)) THEN cohort ELSE Disturb(cohort)
        /\ returned' = IF r.threw THEN returned ELSE returned \cup {r.ret.id}
        /\ UNCHANGED <<tokens, stale, serverVars>>

\* A caller of the module calls clearClientCache().
ClearClientCache ==
    LET r == clearClientCache(tokens, cachedClient, cachedConfig)
    IN  /\ tokens' = r.tokens
        /\ cachedClient' = r.cachedClient
        /\ cachedConfig' = r.cachedConfig
        /\ last' = Record("clear", NoConfig, NullRef, FALSE, FALSE, r.cleared)
        /\ prev' = last
        /\ stale' = returned
        /\ cohort' = Disturb(cohort)
        /\ UNCHANGED <<allocated, returned, serverVars>>

\* A caller of the module calls createQuranClient(config) directly.
CreateQuranClient(config) ==
    LET r == createQuranClient(config, allocated + 1)
    IN  /\ allocated < MaxClients
        /\ allocated' = IF r.threw THEN allocated ELSE allocated + 1
        /\ last' = Record("create", config, r.client, r.threw, ~r.threw, <<>>)
        /\ prev' = last
        /\ UNCHANGED <<tokens, cacheVars, returned, stale, cohort, serverVars>>

\* The caller that received a client from the last call issues a content
\* request with it: the SDK obtains and caches an access token.
UseClient ==
    /\ last.op \in {"get", "create"}
    /\ ~last.threw
    /\ last.ret.id \notin tokens
    /\ tokens' = tokens \cup {last.ret.id}
    /\ UNCHANGED <<allocated, cacheVars, last, prev, returned, stale, cohort, serverVars>>

\* MyMCP.init() of session s: choose the environment, get the client, and
\* register the tools, whose callbacks close over that client.
SessionInit(s) ==
    LET config == initConfig(procEnv)
        r      == getQuranClient(config, allocated, cachedClient, cachedConfig)
    IN  /\ ~sessions[s].ready
        /\ r.allocated <= MaxClients
        /\ allocated' = r.allocated
        /\ cachedClient' = r.cachedClient
        /\ cachedConfig' = r.cachedConfig
        /\ sessions' = [sessions EXCEPT ![s] =
                            [ready |-> ~r.threw, quranEnv |-> config.environment,
                             quranClient |-> r.ret, cohort |-> cohort.no]]
        /\ last' = Record("get", config, r.ret, r.threw, r.built, <<>>)
        /\ prev' = last
        /\ cohort' = [cohort EXCEPT !.open = TRUE]
        /\ returned' = IF r.threw THEN returned ELSE returned \cup {r.ret.id}
        /\ UNCHANGED <<tokens, stale, procEnv, inflight, handled>>

\* The dispatcher invokes a tool callback of session s: the handler calls the
\* client bound in init() and is suspended at the upstream call.  The model
\* keeps one invocation per session in flight at a time; invocations of
\* different sessions overlap freely.
ToolCall(s, tool) ==
    /\ sessions[s].ready
    /\ \A t \in Tools : <<s, t>> \notin inflight
    /\ inflight' = inflight \cup {<<s, tool>>}
    /\ UNCHANGED <<allocated, tokens, cacheVars, procEnv, sessions, handled, last, prev, returned, stale, cohort>>

\* Variant of ToolReturn with a slip: the callback asked the cache for the
\* client and so called whichever client the cache held at the time.
ToolReturnViaCache(s, tool, outcome) ==
    /\ <<s, tool>> \in inflight
    /\ inflight' = inflight \ {<<s, tool>>}
    /\ tokens' = IF outcome = "authFailed" \/ cachedClient = NullRef
                 THEN tokens
                 ELSE tokens \cup {cachedClient.id}
    /\ UNCHANGED <<allocated, cacheVars, procEnv, sessions, handled, last, prev, returned, stale, cohort>>

\* The upstream call of an invocation settles and the handler returns its
\* envelope.  The client authenticated on the way unless the credential
\* exchange itself was what failed.
ToolReturn(s, tool, outcome) ==
    /\ <<s, tool>> \in inflight
    /\ inflight' = inflight \ {<<s, tool>>}
    /\ tokens' = IF outcome = "authFailed"
                 THEN tokens
                 ELSE tokens \cup {sessions[s].quranClient.id}
    /\ UNCHANGED <<allocated, cacheVars, procEnv, sessions, handled, last, prev, returned, stale, cohort>>

Outcomes == {"resolved", "rejected", "authFailed"}

\* A handler is invoked and runs up to its await: the upstream request is out.
CallGetVerse(params) ==
    /\ handled.phase # "awaiting"
    /\ handled' = [tool |-> "getVerse", phase |-> "awaiting", params |-> params,
                   request |-> getVerseRequest(params)]
    /\ UNCHANGED <<allocated, tokens, cacheVars, procEnv, sessions, inflight,
                   last, prev, returned, stale, cohort>>

\* The upstream call settles; getVerse runs to its end and its promise settles.
ReturnGetVerse(upstream) ==
    /\ handled.tool = "getVerse"
    /\ handled.phase = "awaiting"
    /\ handled' = [tool |-> "getVerse", phase |-> "returned", params |-> handled.params,
                   request |-> handled.request, upstream |-> upstream,
                   result |-> getVerse(handled.params, upstream)]
    /\ UNCHANGED <<allocated, tokens, cacheVars, procEnv, sessions, inflight,
                   last, prev, returned, stale, cohort>>

CallGetAvailableTranslations(params) ==
    /\ handled.phase # "awaiting"
    /\ handled' = [tool |-> "getAvailableTranslations", phase |-> "awaiting",
                   params |-> params,
                   request |-> getAvailableTranslationsRequest(params)]
    /\ UNCHANGED <<allocated, tokens, cacheVars, procEnv, sessions, inflight,
                   last, prev, returned, stale, cohort>>

ReturnGetAvailableTranslations(upstream) ==
    /\ handled.tool = "getAvailableTranslations"
    /\ handled.phase = "awaiting"
    /\ handled' = [tool |-> "getAvailableTranslations", phase |-> "returned",
                   params |-> handled.params, request |-> handled.request,
                   upstream |-> upstream,
                   result |-> getAvailableTranslations(handled.params, upstream)]
    /\ UNCHANGED <<allocated, tokens, cacheVars, procEnv, sessions, inflight,
                   last, prev, returned, stale, cohort>>


(* --------------------------- specifications --------------------------- *)

\* client.ts used as a library: any typed caller, any order of calls.
Next ==
    \/ \E config \in Configs : GetQuranClient(config)
    \/ ClearClientCache
    \/ UseClient

Spec == Init /\ [][Next]_vars

\* The factory alone, called with whatever a JavaScript caller can pass as
\* `environment` (the type is erased at run time).
RawEnvironments ==
    Environments \cup { EmptyStr,
                        <<"s","t","a","g","i","n","g">>,
                        <<"P","R","O","D","U","C","T","I","O","N">> }

RawConfigs ==
    [clientId : ClientIds, clientSecret : ClientSecrets,
     defaultLanguage : Languages, environment : RawEnvironments]

NextFactory == \E config \in RawConfigs : CreateQuranClient(config)

SpecFactory == Init /\ [][NextFactory]_vars

\* The worker process: its bindings are fixed when it starts; sessions are
\* initialised and serve tool calls while other code of the process may call
\* the cache directly, for the process's own target or for another one.
EnvSelectors ==
    { <<"P","r","e","-","P","r","o","d","u","c","t","i","o","n">> }

ServerConfigs ==
    { c \in Configs : c.clientId = <<"a">> /\ c.clientSecret = <<"s">>
                       /\ c.defaultLanguage = Undefined /\ c.environment # Undefined }

InitServer ==
    /\ InitCommon
    /\ procEnv \in [QURAN_ENV : EnvSelectors, QURAN_CLIENT_ID : {<<"a">>},
                    QURAN_CLIENT_SECRET : {<<"s">>}]

NextServer ==
    \/ \E s \in Sessions : SessionInit(s)
    \/ \E s \in Sessions, tool \in Tools : ToolCall(s, tool)
    \/ \E s \in Sessions, tool \in Tools, outcome \in Outcomes : ToolReturn(s, tool, outcome)
    \/ \E config \in ServerConfigs : GetQuranClient(config)
    \/ ClearClientCache

SpecServer == InitServer /\ [][NextServer]_vars

\* Session set-up under every spelling of the QURAN_ENV binding.
RECURSIVE Casings(_, _)
Casings(lower, upper) ==
    IF lower = <<>>
    THEN { <<>> }
    ELSE { <<c>> \o rest : c \in {Head(lower), Head(upper)},
                           rest \in Casings(Tail(lower), Tail(upper)) }

PRODUCTION_UPPER == <<"P","R","O","D","U","C","T","I","O","N">>

PRE_PRODUCTION_UPPER == <<"P","R","E","-","P","R","O","D","U","C","T","I","O","N">>

AllSelectors ==
    Casings(PRE_PRODUCTION, PRE_PRODUCTION_UPPER)
    \cup Casings(PRODUCTION, PRODUCTION_UPPER)
    \cup { Undefined, EmptyStr,
           <<"s","t","a","g","i","n","g">>,
           <<"p","r","e","p","r","o","d","u","c","t","i","o","n">>,
           <<"p","r","e","_","p","r","o","d","u","c","t","i","o","n">>,
           <<"p","r","e","-","p","r","o","d","u","c","t","i","o","n"," ">>,
           <<"p","r","e","-">> }

InitEnv ==
    /\ InitCommon
    /\ procEnv \in [QURAN_ENV : AllSelectors, QURAN_CLIENT_ID : {<<"a">>},
                    QURAN_CLIENT_SECRET : {<<"s">>}]

NextEnv == \E s \in Sessions : SessionInit(s)

SpecEnv == InitEnv /\ [][NextEnv]_vars

\* The worker started with any combination of present, empty and missing
\* credentials: the sessions initialise and serve tool calls.
StartupEnvs ==
    [QURAN_ENV           : {Undefined, PRE_PRODUCTION},
     QURAN_CLIENT_ID     : {Undefined, EmptyStr, <<"a">>},
     QURAN_CLIENT_SECRET : {Undefined, EmptyStr, <<"s">>}]

InitStartup ==
    /\ InitCommon
    /\ procEnv \in StartupEnvs

NextStartup ==
    \/ \E s \in Sessions : SessionInit(s)
    \/ \E s \in Sessions, tool \in Tools : ToolCall(s, tool)
    \/ \E s \in Sessions, tool \in Tools, outcome \in Outcomes : ToolReturn(s, tool, outcome)

SpecStartup == InitStartup /\ [][NextStartup]_vars

\* The tool handlers called by themselves, as the test scripts call them:
\* every parameter record against every way the upstream call can settle.
NextTools ==
    \/ \E params \in GetVerseParams : CallGetVerse(params)
    \/ \E verse \in Verses \cup {NotAnObject} :
           ReturnGetVerse([settled |-> "resolved", value |-> verse])
    \/ \E error \in Thrown : ReturnGetVerse([settled |-> "rejected", value |-> error])
    \/ \E params \in GetAvailableTranslationsParams : CallGetAvailableTranslations(params)
    \/ \E c \in Catalogs :
           ReturnGetAvailableTranslations([settled |-> "resolved", value |-> Some(c)])
    \/ ReturnGetAvailableTranslations([settled |-> "resolved", value |-> None])
    \/ \E error \in Thrown :
           ReturnGetAvailableTranslations([settled |-> "rejected", value |-> error])

SpecTools == Init /\ [][NextTools]_vars

\* The whole program in one process: callers of client.ts and tool handler
\* invocations in any order, over a few configurations and a few ways for
\* the upstream calls to settle.
FrameConfigs ==
    { c \in Configs : c.clientSecret = <<"s">> /\ c.defaultLanguage = Undefined
                        /\ c.clientId = <<"a">> }

FrameVerseParams ==
    { p \in GetVerseParams : p.verseKey = <<"x">> /\ ~p.includeWords
                               /\ p.translations = None /\ p.tafsirIds # None }

FrameVerses ==
    { v \in Verses : v.translations = None /\ v.tafsirs = None /\ v.words = None }

FrameThrown == { e \in Thrown : e.status = 404 \/ e.kind = "null" }

NextFrame ==
    \/ \E config \in FrameConfigs : GetQuranClient(config)
    \/ ClearClientCache
    \/ \E config \in FrameConfigs : CreateQuranClient(config)
    \/ \E params \in FrameVerseParams : CallGetVerse(params)
    \/ \E verse \in FrameVerses :
           ReturnGetVerse([settled |-> "resolved", value |-> verse])
    \/ \E error \in FrameThrown : ReturnGetVerse([settled |-> "rejected", value |-> error])
    \/ CallGetAvailableTranslations([language |-> Undefined])
    \/ ReturnGetAvailableTranslations([settled |-> "resolved", value |-> Some(<<>>)])
    \/ \E error \in FrameThrown :
           ReturnGetAvailableTranslations([settled |-> "rejected", value |-> error])

SpecFrame == Init /\ [][NextFrame]_vars

(* ------------------------------- claims -------------------------------- *)

\* Two getQuranClient calls with nothing but content requests between them.
SuccessiveGets == prev.op = "get" /\ last.op = "get" /\ ~prev.threw /\ ~last.threw

C2_OtherTargetOtherInstance ==
    /\ (SuccessiveGets /\ ~SameTarget(prev.config, last.config))
       => /\ last.built
          /\ last.ret.id # prev.ret.id
          /\ cachedClient = last.ret
          /\ cachedConfig = getConfigKey(last.config)
          /\ cachedConfig # getConfigKey(prev.config)
    /\ \A c \in Configs :
          ~SameTarget(c, last.config) => getConfigKey(c) # getConfigKey(last.config)

C2_Witness ==
    /\ SuccessiveGets
    /\ prev.config.clientId = <<"a">>
    /\ prev.config.environment = PRE_PRODUCTION
    /\ last.config.clientId = <<"a",":","p","r","e","-">>
    /\ last.config.environment = Undefined
    /\ last.ret.id # prev.ret.id

\* C3: a getQuranClient that runs after a clearClientCache never returns a
\* client that some getQuranClient returned before that clearClientCache, and
\* the cache never holds such a client.
C3_FreshAfterInvalidate ==
    /\ (last.op = "get" /\ ~last.threw) => last.ret.id \notin stale
    /\ cachedClient # NullRef => cachedClient.id \notin stale

C3_Witness ==
    /\ prev.op = "clear"
    /\ Len(prev.cleared) = 1
    /\ last.op = "get"
    /\ last.built
    /\ last.ret.clientId = prev.cleared[1].clientId
    /\ last.ret.contentBaseUrl = prev.cleared[1].contentBaseUrl
    /\ prev.cleared[1].id \in stale

\* C4: clearClientCache empties both cachedClient and cachedConfig; when a
\* client was cached it calls clearCachedToken on that client exactly once, so
\* that the client holds no token afterwards; when none was cached it calls
\* clearCachedToken on no client and no client's token changes.
C4_InvalidateEmptiesCache ==
    [][ClearClientCache
       => /\ cachedClient' = NullRef
          /\ cachedConfig' = NullStr
          /\ cachedClient # NullRef
             => /\ last'.cleared = <<cachedClient>>
                /\ tokens' = tokens \ {cachedClient.id}
          /\ cachedClient = NullRef
             => /\ last'.cleared = <<>>
                /\ tokens' = tokens]_vars

C4_Witness ==
    /\ last.op = "clear"
    /\ Len(last.cleared) = 1
    /\ last.cleared[1].id \notin tokens
    /\ tokens # {}
    /\ cachedClient = NullRef
    /\ cachedConfig = NullStr

\* C5: when getQuranClient is called again with the configuration of the call
\* before it, it returns the same client, constructs nothing, and the cache
\* is what the earlier call left: that client under that configuration's
\* fingerprint.
C5_IdempotentGet ==
    (SuccessiveGets /\ prev.config = last.config)
    => /\ last.ret = prev.ret
       /\ ~last.built
       /\ cachedClient = prev.ret
       /\ cachedConfig = getConfigKey(prev.config)

C5_Witness == SuccessiveGets /\ prev.config = last.config /\ prev.built /\ ~last.built

C7_CredentialChangeInvalidates ==
    (SuccessiveGets
       /\ (\/ last.config.clientId # prev.ret.clientId
           \/ last.config.clientSecret # prev.ret.clientSecret
           \/ ENVIRONMENT_CONFIG[EnvOf(last.config)].contentBaseUrl # prev.ret.contentBaseUrl))
    => /\ last.built
       /\ last.ret.id # prev.ret.id


\* A non-empty HTTPS origin.
IsHttpsOrigin(url) ==
    /\ Len(url) > 8
    /\ SubSeq(url, 1, 8) = <<"h","t","t","p","s",":","/","/">>

\* C8: createQuranClient never raises: for PRE_PRODUCTION it builds the client
\* with the pre-production pair of HTTPS origins, and for PRODUCTION, for an
\* absent environment and for any unrecognized environment value it builds
\* the client with the production pair.
C8_ResolveTotal ==
    last.op = "create"
    => /\ ~last.threw
       /\ IsHttpsOrigin(last.ret.contentBaseUrl)
       /\ IsHttpsOrigin(last.ret.authBaseUrl)
       /\ <<last.ret.contentBaseUrl, last.ret.authBaseUrl>> =
             (IF last.config.environment = PRE_PRODUCTION
              THEN <<PreContentUrl, PreAuthUrl>>
              ELSE <<ProdContentUrl, ProdAuthUrl>>)
       /\ <<PreContentUrl, PreAuthUrl>> # <<ProdContentUrl, ProdAuthUrl>>

\* A spelling of `lower` in some mix of upper and lower case.
IsCasingOf(sel, lower, upper) ==
    /\ sel # Undefined
    /\ Len(sel) = Len(lower)
    /\ \A i \in 1..Len(lower) : sel[i] \in {lower[i], upper[i]}

\* C9: init() selects PRE_PRODUCTION exactly when the QURAN_ENV binding is
\* "pre-production" in some mix of cases, and PRODUCTION for every other
\* value, an unset binding included; the client it obtains is built for the
\* selected environment.
C9_SelectorCaseInsensitive ==
    \A s \in Sessions :
        sessions[s].ready
        => /\ sessions[s].quranEnv =
                 (IF IsCasingOf(procEnv.QURAN_ENV, PRE_PRODUCTION, PRE_PRODUCTION_UPPER)
                  THEN PRE_PRODUCTION ELSE PRODUCTION)
           /\ sessions[s].quranClient.contentBaseUrl =
                 ENVIRONMENT_CONFIG[sessions[s].quranEnv].contentBaseUrl

C9_Witness ==
    /\ procEnv.QURAN_ENV = <<"P","r","E","-","p","R","o","d","U","c","t","I","o","N">>
    /\ \E s \in Sessions :
          /\ sessions[s].ready
          /\ sessions[s].quranEnv = PRE_PRODUCTION
          /\ sessions[s].quranClient.contentBaseUrl = PreContentUrl

\* The fingerprint session s passed to the cache in its init().
SessionKey(s) ==
    getConfigKey([initConfig(procEnv) EXCEPT !.environment = sessions[s].quranEnv])

\* C10 as stated: all tool invocations in flight whose sessions' inits used
\* the same fingerprint call the same client instance.
C10_OneHandlePerFingerprint ==
    \A i, j \in inflight :
        SessionKey(i[1]) = SessionKey(j[1])
        => sessions[i[1]].quranClient.id = sessions[j[1]].quranClient.id

\* C10 amended: all tool invocations in flight whose sessions' inits used the
\* same fingerprint, with no clearClientCache and no getQuranClient for
\* another fingerprint between those inits, call the same client instance.
C10_OneHandlePerCohort ==
    \A i, j \in inflight :
        (SessionKey(i[1]) = SessionKey(j[1]) /\ sessions[i[1]].cohort = sessions[j[1]].cohort)
        => sessions[i[1]].quranClient = sessions[j[1]].quranClient

C10_Witness ==
    \E i, j \in inflight :
        /\ i[1] # j[1]
        /\ sessions[i[1]].cohort = sessions[j[1]].cohort
        /\ sessions[i[1]].quranClient.id = sessions[j[1]].quranClient.id
        /\ sessions[i[1]].quranClient.id > 1

(* ----------------------- claims on the tool handlers ------------------- *)

\* The handler `tool` has returned.
Returned(tool) == handled.tool = tool /\ handled.phase = "returned"

\* The upstream call of the returned invocation failed.
UpstreamFailed == handled.phase = "returned" /\ handled.upstream.settled = "rejected"

\* The returned invocation's promise resolved with an envelope.
Enveloped == handled.phase = "returned" /\ handled.result.settled = "resolved"

\* The text of the single content block of the envelope.
TextOf(envelope) == envelope.content[1].text

\* The envelope is flagged as an error.
Flagged(envelope) == "isError" \in DOMAIN envelope /\ envelope.isError = TRUE

\* text contains the fragment, or the run of characters, sub.
Contains(text, sub) ==
    \E i \in 1..(Len(text) - Len(sub) + 1) : SubSeq(text, i, i + Len(sub) - 1) = sub

\* How often the fragment occurs in text.
Count(text, fragment) == Cardinality({ i \in 1..Len(text) : text[i] = fragment })

\* C11: whatever the upstream call of getVerse or getAvailableTranslations
\* rejects with (an Error, an object without message and status, null,
\* undefined), the handler's promise resolves with an envelope that is flagged
\* isError = true and has a non-empty text; it never rejects.
C11_FailureNeverEscapes ==
    UpstreamFailed =>
        /\ handled.result.settled = "resolved"
        /\ Flagged(handled.result.value)
        /\ Len(handled.result.value.content) = 1
        /\ Len(TextOf(handled.result.value)) > 0

\* C12: when the upstream verse lookup fails, getVerse returns an envelope
\* flagged isError = true whose text contains the verse key that was asked
\* for, the failure's status (or "error" when it has none) and the failure's
\* message (when it has one).
C12_ErrorNamesVerseAndCause ==
    (Returned("getVerse") /\ UpstreamFailed) =>
        LET error == handled.upstream.value
        IN  /\ handled.result.settled = "resolved"
            /\ Flagged(handled.result.value)
            /\ Contains(TextOf(handled.result.value), handled.params.verseKey)
            /\ Contains(TextOf(handled.result.value),
                        <<"**\n\nError Type: ">> \o
                            (IF error.status = 0 THEN <<"error">> ELSE DecStr(error.status)))
            /\ (error.message # Undefined =>
                    Contains(TextOf(handled.result.value),
                             <<"\nMessage: ">> \o error.message))

\* The upstream call resolved with a value the handler can format: a verse
\* object, or a catalogue array that is filtered or has no entry whose
\* language name is the name of a member inherited from Object.prototype.
UpstreamUsable ==
    /\ handled.phase = "returned"
    /\ handled.upstream.settled = "resolved"
    /\ handled.tool = "getVerse" => handled.upstream.value.isObject
    /\ handled.tool = "getAvailableTranslations" =>
           /\ handled.upstream.value.some
           /\ \/ ~Falsy(handled.params.language)
              \/ \A i \in 1..Len(handled.upstream.value.items) :
                     handled.upstream.value.items[i].languageName \notin ObjectPrototypeKeys

PlainVerseServed ==
    /\ Returned("getVerse")
    /\ handled.params.translations = None
    /\ ~handled.params.includeWords
    /\ ~handled.params.includeTafsir
    /\ handled.params.tafsirIds = None
    /\ handled.upstream.settled = "resolved"
    /\ handled.upstream.value.isObject

\* The text shows the verse's source text and its chapter, number, page and juz.
ShowsVerse(text, verse) ==
    /\ Contains(text, <<ArabicHeading>> \o verse.textUthmani \o <<"\n\n">>)
    /\ Contains(text, <<"- Chapter: ">> \o DecStr(verse.chapterId) \o <<"\n">>)
    /\ Contains(text, <<"- Verse Number: ">> \o DecStr(verse.verseNumber) \o <<"\n">>)
    /\ Contains(text, <<"- Page: ">> \o DecStr(verse.pageNumber) \o <<"\n">>)
    /\ Contains(text, <<"- Juz: ">> \o DecStr(verse.juzNumber) \o <<"\n\n">>)

\* C14 (as claimed): getVerse with a verse key and no optional flag returns a
\* non-error envelope whose text shows the source text and the positional
\* metadata and has no translation section and no commentary section,
\* whatever the upstream response contains.
C14_PlainVerseHasNoSections ==
    PlainVerseServed =>
        /\ Enveloped
        /\ ~Flagged(handled.result.value)
        /\ ShowsVerse(TextOf(handled.result.value), handled.upstream.value)
        /\ Count(TextOf(handled.result.value), TranslationsHeading) = 0
        /\ Count(TextOf(handled.result.value), TafsirHeading) = 0

\* C14 (amended): such a call returns a non-error envelope whose text shows
\* the source text and the positional metadata and never a word-by-word
\* section; it has a translation section exactly when the upstream verse
\* carries at least one translation, and a commentary section exactly when it
\* carries at least one tafsir.
C14_PlainVerseSectionsFollowResponse ==
    PlainVerseServed =>
        LET verse == handled.upstream.value
        IN  /\ Enveloped
            /\ ~Flagged(handled.result.value)
            /\ ShowsVerse(TextOf(handled.result.value), verse)
            /\ Count(TextOf(handled.result.value), WordsHeading) = 0
            /\ Count(TextOf(handled.result.value), TranslationsHeading) =
                   (IF Len(verse.translations.items) > 0 THEN 1 ELSE 0)
            /\ Count(TextOf(handled.result.value), TafsirHeading) =
                   (IF Len(verse.tafsirs.items) > 0 THEN 1 ELSE 0)

C14_Witness ==
    /\ PlainVerseServed
    /\ handled.upstream.value.translations = None
    /\ handled.upstream.value.tafsirs = Some(<<>>)
    /\ Len(handled.upstream.value.words.items) > 0
    /\ Enveloped
    /\ Count(TextOf(handled.result.value), TranslationsHeading) = 0

\* getVerse was called with a non-empty list of translation ids and the
\* upstream lookup resolved with a verse.
TranslatedVerseServed ==
    /\ Returned("getVerse")
    /\ handled.params.translations.some
    /\ Len(handled.params.translations.items) > 0
    /\ handled.upstream.settled = "resolved"
    /\ handled.upstream.value.isObject

\* The text lists the translations, each with its text, in the given order.
ListsTranslations(text, items) ==
    /\ Count(text, "):\n") = Len(items)
    /\ \E at \in [1..Len(items) -> 1..Len(text)] :
          /\ \A i \in 1..Len(items) :
                /\ text[at[i]] = "):\n"
                /\ SubSeq(text, at[i] + 1, at[i] + Len(items[i].text) + 1)
                       = items[i].text \o <<"\n">>
          /\ \A i \in 1..(Len(items) - 1) : at[i] < at[i + 1]

\* C15 (as claimed): getVerse with a non-empty list of translation ids whose
\* upstream call succeeds returns a non-error envelope with exactly one
\* translation section, which lists each translation returned.
C15_OneTranslationSection ==
    TranslatedVerseServed =>
        /\ Enveloped
        /\ ~Flagged(handled.result.value)
        /\ Count(TextOf(handled.result.value), TranslationsHeading) = 1
        /\ ListsTranslations(TextOf(handled.result.value),
                             handled.upstream.value.translations.items)

\* C15 (amended): such a call returns a non-error envelope; when the upstream
\* verse carries at least one translation the text has exactly one
\* translation section, which lists each translation in upstream order, and
\* when it carries none (no array or an empty one) the text has no
\* translation section.
C15_TranslationSectionFollowsResponse ==
    TranslatedVerseServed =>
        LET items == handled.upstream.value.translations.items
        IN  /\ Enveloped
            /\ ~Flagged(handled.result.value)
            /\ Count(TextOf(handled.result.value), TranslationsHeading) =
                   (IF Len(items) > 0 THEN 1 ELSE 0)
            /\ ListsTranslations(TextOf(handled.result.value), items)

C15_Witness ==
    /\ TranslatedVerseServed
    /\ Len(handled.upstream.value.translations.items) = 2
    /\ handled.upstream.value.translations.items[1]
           # handled.upstream.value.translations.items[2]
    /\ Enveloped
    /\ Count(TextOf(handled.result.value), TranslationsHeading) = 1

\* The positions of a fragment in text, in ascending order.
RECURSIVE Ascending(_)
Ascending(positions) ==
    IF positions = {} THEN <<>>
    ELSE LET p == CHOOSE x \in positions : \A y \in positions : x <= y
         IN  <<p>> \o Ascending(positions \ {p})

Positions(text, fragment) == Ascending({ i \in 1..Len(text) : text[i] = fragment })

\* The first position from i on where text has the fragment (past the end
\* when it has none).
NextAt(text, i, fragment) ==
    IF \E j \in i..Len(text) : text[j] = fragment
    THEN CHOOSE j \in i..Len(text) :
             text[j] = fragment /\ \A k \in i..(j - 1) : text[k] # fragment
    ELSE Len(text) + 1

\* The lines of the flat list: from each bullet up to the end of its line.
FlatLines(text) ==
    LET at == Positions(text, FlatBullet)
    IN  [n \in 1..Len(at) |-> SubSeq(text, at[n], NextAt(text, at[n], "\n") - 1)]

\* The ids the flat list shows, in the order of the lines.
FlatIds(text) ==
    LET at == Positions(text, FlatBullet)
    IN  [n \in 1..Len(at) |-> SubSeq(text, at[n] + 1, NextAt(text, at[n], "** - ") - 1)]

\* Two characters are the same letter, whatever their case.
SameLetter(x, y) ==
    x = y \/ \E k \in 1..26 : {x, y} = {UpperLetters[k], LowerLetters[k]}

\* name is a language name and equals the filter, ignoring letter case.
EqualsIgnoringCase(name, filter) ==
    /\ name # Undefined
    /\ Len(name) = Len(filter)
    /\ \A i \in 1..Len(name) : SameLetter(name[i], filter[i])

\* getAvailableTranslations was called with a filter and the upstream call
\* resolved with a catalogue.
FilteredCatalogServed ==
    /\ Returned("getAvailableTranslations")
    /\ ~Falsy(handled.params.language)
    /\ handled.upstream.settled = "resolved"
    /\ handled.upstream.value.some

\* The entries of the served catalogue the filter selects, in upstream order.
Matches ==
    SelectSeq(handled.upstream.value.items,
              LAMBDA t : EqualsIgnoringCase(t.languageName, handled.params.language))

\* C16: getAvailableTranslations asks the upstream for the whole catalogue
\* (findAllTranslations without arguments) and filters locally: with a filter
\* the listed entries are exactly the entries whose language name equals the
\* filter ignoring letter case (no substring match; entries without a
\* language name never match), in upstream order.
C16_FilterIsExactIgnoringCase ==
    /\ handled.tool = "getAvailableTranslations" =>
           handled.request = [method |-> "resources.findAllTranslations",
                              arguments |-> <<>>]
    /\ FilteredCatalogServed =>
           /\ Enveloped
           /\ ~Flagged(handled.result.value)
           /\ FlatIds(TextOf(handled.result.value))
                  = [n \in 1..Len(Matches) |-> DecStr(Matches[n].id)]

C16_Witness ==
    /\ FilteredCatalogServed
    /\ handled.params.language = <<"U","R">>
    /\ Len(handled.upstream.value.items) = 3
    /\ handled.upstream.value.items[1].languageName = <<"u","r","d","u">>
    /\ handled.upstream.value.items[2].languageName = <<"U","r">>
    /\ handled.upstream.value.items[3].languageName = Undefined
    /\ Enveloped
    /\ FlatIds(TextOf(handled.result.value)) = << <<"1","3","1">> >>

\* C17: a filter that no entry matches yields a non-error envelope whose text
\* reports 0 found, says that no translations were found for that language,
\* suggests example languages and has no usage example.
C17_NoMatchReport ==
    (FilteredCatalogServed /\ Len(Matches) = 0) =>
        /\ Enveloped
        /\ ~Flagged(handled.result.value)
        /\ Contains(TextOf(handled.result.value),
                    <<" Translations** (", "0", " found)\n\n">>)
        /\ Contains(TextOf(handled.result.value),
                    <<NoneFound, ForLanguage>> \o handled.params.language \o <<TryCommon>>)
        /\ Count(TextOf(handled.result.value), UsageHeading) = 0
        /\ Count(TextOf(handled.result.value), FlatBullet) = 0

C17_Witness ==
    /\ FilteredCatalogServed
    /\ handled.params.language = <<"k">>
    /\ Len(handled.upstream.value.items) = 3
    /\ Len(Matches) = 0
    /\ Enveloped
    /\ Count(TextOf(handled.result.value), NoneFound) = 1

\* getAvailableTranslations was called without a filter and the upstream call
\* resolved with a catalogue that has entries.
WholeCatalogServed ==
    /\ Returned("getAvailableTranslations")
    /\ handled.params.language = Undefined
    /\ handled.upstream.settled = "resolved"
    /\ handled.upstream.value.some
    /\ Len(handled.upstream.value.items) > 0

\* The headings of the groups of the grouped list, in the order of the text.
GroupHeads(text) ==
    LET at == Positions(text, GroupOpen)
    IN  [n \in 1..Len(at) |-> SubSeq(text, at[n] + 1, NextAt(text, at[n], "** (") - 1)]

\* The ids shown under the n-th group, in the order of the text.
GroupIds(text, n) ==
    LET at     == Positions(text, GroupOpen)
        first  == at[n]
        beyond == IF n < Len(at) THEN at[n + 1] ELSE Len(text) + 1
        lines  == Ascending({ i \in first..(beyond - 1) : text[i] = GroupBullet })
    IN  [k \in 1..Len(lines) |->
            SubSeq(text, lines[k] + 1, NextAt(text, lines[k], " - ") - 1)]

\* The text groups the items by Key: one group per key, the groups in
\* lexicographic (code unit) order of the keys, each headed by its key with
\* the first letter in upper case and showing the ids of exactly the items
\* with that key, in upstream order.
GroupedBy(text, items, Key(_)) ==
    LET keys == { Key(items[i]) : i \in 1..Len(items) }
    IN  /\ Len(GroupHeads(text)) = Cardinality(keys)
        /\ \E order \in [1..Cardinality(keys) -> keys] :
              /\ \A m, n \in 1..Cardinality(keys) : m < n => LexLess(order[m], order[n])
              /\ \A n \in 1..Cardinality(keys) :
                    LET members == SelectSeq(items, LAMBDA t : Key(t) = order[n])
                    IN  /\ GroupHeads(text)[n] = capitalize(order[n])
                        /\ GroupIds(text, n)
                               = [k \in 1..Len(members) |-> DecStr(members[k].id)]

\* The entry's language name, or "unknown" for an entry that has none.
LanguageNameOrUnknown(t) == IF Falsy(t.languageName) THEN UNKNOWN ELSE t.languageName

\* C18: without a filter every entry is rendered under the group whose key is
\* the entry's own language name ("unknown" standing for a missing name), and
\* the groups come in lexicographic order of their keys.
C18_GroupedUnderOwnLanguage ==
    WholeCatalogServed =>
        /\ Enveloped
        /\ ~Flagged(handled.result.value)
        /\ GroupedBy(TextOf(handled.result.value), handled.upstream.value.items,
                     LanguageNameOrUnknown)

\* C19: a filter that matches at least one entry yields a flat list with one
\* line per matching entry in upstream order (id, name, and the author only
\* when the entry has one), followed by exactly one usage example that refers
\* to the id of the first matching entry; the count in the header is the
\* number of listed entries.
C19_FlatListAndUsage ==
    (FilteredCatalogServed /\ Len(Matches) > 0) =>
        LET text == TextOf(handled.result.value)
        IN  /\ Enveloped
            /\ ~Flagged(handled.result.value)
            /\ FlatLines(text) =
                   [n \in 1..Len(Matches) |->
                       <<FlatBullet>> \o DecStr(Matches[n].id) \o <<"** - ">>
                           \o Matches[n].name
                           \o (IF Matches[n].authorName \in {Undefined, EmptyStr}
                               THEN <<>>
                               ELSE <<" by ">> \o Matches[n].authorName)]
            /\ Count(text, GroupOpen) = 0
            /\ Count(text, UsageHeading) = 1
            /\ \A i \in 1..Len(text) :
                   text[i] = FlatBullet => i < NextAt(text, 1, UsageHeading)
            /\ Contains(text, <<UsageHeading, UsageIntro>> \o DecStr(Matches[1].id)
                                  \o <<", use:\n">>)
            /\ Contains(text, <<" Translations** (">> \o DecStr(Len(Matches))
                                  \o <<" found)\n\n">>)

C19_Witness ==
    /\ FilteredCatalogServed
    /\ handled.params.language = <<"u","r">>
    /\ Len(handled.upstream.value.items) = 3
    /\ Len(Matches) = 2
    /\ Matches[1].authorName = Undefined
    /\ Matches[2].authorName # Undefined
    /\ Enveloped
    /\ Len(FlatLines(TextOf(handled.result.value))) = 2

\* A credential of the process is missing or empty.
CredentialMissing ==
    Falsy(procEnv.QURAN_CLIENT_ID) \/ Falsy(procEnv.QURAN_CLIENT_SECRET)

\* C20: when clientId or clientSecret is missing or empty at startup, init
\* fails before anything else happens: no session has its tools registered
\* and no client is stored in the cache.
C20_CredentialsRequired ==
    CredentialMissing =>
        /\ \A s \in Sessions : ~sessions[s].ready
        /\ cachedClient = NullRef
        /\ inflight = {}

(* ---------------- claims on authentication and the cache --------------- *)

\* The step completes a tool invocation of session s (its upstream call, a
\* content request of the session's client, has settled).
Completes(s) == \E tool \in Tools : <<s, tool>> \in inflight /\ <<s, tool>> \notin inflight'

\* The step is a call of clearClientCache.
ClearStep == last'.op = "clear" /\ prev' = last /\ stale' = returned

\* C21: authentication is lazy.  A step that constructs a client (through
\* getQuranClient, which calls createQuranClient) exchanges no credentials:
\* the new client holds no token and no other client's token changes.  A
\* client comes to hold a token only when a content request made with it
\* completes.  clearClientCache takes the token of the client it held, and a
\* client loses its token in no other way.
C21_LazyAuthentication ==
    [][/\ allocated' # allocated => (tokens' = tokens /\ allocated' \notin tokens')
       /\ \A id \in tokens' \ tokens :
              \E s \in Sessions : Completes(s) /\ sessions[s].quranClient.id = id
       /\ (ClearStep /\ cachedClient # NullRef) => cachedClient.id \notin tokens'
       /\ \A id \in tokens \ tokens' : ClearStep /\ cachedClient.id = id]_vars

\* A client that clearClientCache forced back to unauthenticated holds a
\* token again: a session that keeps it made a content request afterwards.
C21_Witness ==
    /\ last.op = "clear"
    /\ Len(last.cleared) = 1
    /\ last.cleared[1].id \in tokens
    /\ \E s \in Sessions : sessions[s].ready /\ sessions[s].quranClient = last.cleared[1]
    /\ cachedClient = NullRef

\* The fingerprint of the configuration a client was built from, read off
\* the client: its clientId and the environment whose endpoints it carries.
BuiltFrom(client, key) ==
    \E env \in {PRODUCTION, PRE_PRODUCTION} :
        /\ client.contentBaseUrl = ENVIRONMENT_CONFIG[env].contentBaseUrl
        /\ client.authBaseUrl = ENVIRONMENT_CONFIG[env].authBaseUrl
        /\ key = ToStr(client.clientId) \o <<":">> \o ToStr(env)

\* C22: under every order in which the calls of concurrent callers of
\* getQuranClient and clearClientCache run, the cache holds a client exactly
\* when it holds a fingerprint; a held fingerprint is the key of the
\* configuration the held client was built from; and the cache is what the
\* call that ran last left: the client that call returned under its
\* configuration's key after a getQuranClient, nothing after a
\* clearClientCache.
C22_CacheNeverCorrupted ==
    /\ (cachedClient = NullRef) <=> (cachedConfig = NullStr)
    /\ cachedClient # NullRef => BuiltFrom(cachedClient, cachedConfig)
    /\ (last.op = "get" /\ ~last.threw)
       => (cachedClient = last.ret /\ cachedConfig = getConfigKey(last.config))
    /\ last.op = "clear" => (cachedClient = NullRef /\ cachedConfig = NullStr)

\* Several callers' calls have run: a clear and after it two rebuilds for
\* different targets, and the cache holds what the last one wrote.
C22_Witness ==
    /\ allocated >= 2
    /\ stale # {}
    /\ last.op = "get"
    /\ last.built
    /\ cachedClient = last.ret
    /\ \E id \in returned : id # last.ret.id /\ id \notin stale

\* The cache holds a client under the fingerprint of this configuration.
Hit(config) == cachedClient # NullRef /\ cachedConfig = getConfigKey(config)

\* C23: a step changes cachedClient or cachedConfig only if it is a
\* clearClientCache or a getQuranClient that finds the cache empty or under
\* another fingerprint; a getQuranClient that finds its fingerprint, a
\* createQuranClient, and every step of a getVerse or
\* getAvailableTranslations invocation, whatever its upstream call did, leave
\* both as they were.
C23_CacheWriters ==
    [][/\ cacheVars' # cacheVars
          => \/ ClearClientCache
             \/ \E config \in FrameConfigs : GetQuranClient(config) /\ ~Hit(config)
       /\ \A config \in FrameConfigs :
              (GetQuranClient(config) /\ Hit(config)) => UNCHANGED cacheVars
       /\ (\E config \in FrameConfigs : CreateQuranClient(config)) => UNCHANGED cacheVars
       /\ handled' # handled => UNCHANGED cacheVars]_vars

\* A cache hit, then a createQuranClient, and a handler invocation that
\* failed, with the cache still holding the client of the hit.
C23_Witness ==
    /\ prev.op = "get"
    /\ ~prev.built
    /\ last.op = "create"
    /\ last.built
    /\ handled.phase = "returned"
    /\ handled.upstream.settled = "rejected"
    /\ cachedClient = prev.ret
    /\ cachedConfig = getConfigKey(prev.config)

(* --------------------- claims on the handler cycle --------------------- *)

\* The step in which the upstream call of the invocation under way settles.
Settles == handled.phase = "awaiting" /\ handled'.phase = "returned"

\* C24: an invocation issues one upstream call, and when that call resolves
\* or rejects the invocation returns one envelope: every step in which the
\* upstream call settles, however it settles, ends with the handler's
\* promise resolved with an envelope for the request that was issued.
C24_OneCallOneEnvelope ==
    [][Settles
       => /\ handled'.request = handled.request
          /\ handled'.result.settled = "resolved"
          /\ Len(handled'.result.value.content) = 1]_vars

\* C25: the commentary ids getVerse passes to the upstream lookup are the
\* given tafsirIds when includeTafsir is true and tafsirIds is given, and
\* none otherwise: with includeTafsir false a given tafsirIds list is not
\* passed, and with includeTafsir true and no tafsirIds nothing is passed.
C25_TafsirIdsOnlyWhenAsked ==
    handled.tool = "getVerse" =>
        LET sent == handled.request.options.tafsirs
        IN  /\ ~handled.params.includeTafsir => sent = None
            /\ handled.params.tafsirIds = None => sent = None
            /\ sent # None => (handled.params.includeTafsir /\ sent = handled.params.tafsirIds)
            /\ (handled.params.includeTafsir /\ handled.params.tafsirIds # None)
               => sent = handled.params.tafsirIds

\* A lookup went out without commentary ids although the caller gave some,
\* because includeTafsir was false, and the verse came back.
C25_Witness ==
    /\ Returned("getVerse")
    /\ ~handled.params.includeTafsir
    /\ handled.params.tafsirIds = Some(<<171>>)
    /\ handled.request.options.tafsirs = None
    /\ handled.upstream.settled = "resolved"

(* ------------------------ claims on the factory ------------------------ *)

\* C26: every call of createQuranClient returns a client that no earlier
\* call constructed, carrying the given clientId and clientSecret, the
\* content and auth endpoints of the given environment (of PRODUCTION when
\* none is given) and the given defaultLanguage (ENGLISH when none is given),
\* and leaves cachedClient and cachedConfig as they were.
C26_CreateIsStateless ==
    [][\A config \in RawConfigs :
         CreateQuranClient(config)
         => /\ ~last'.threw
            /\ last'.ret.id > allocated
            /\ last'.ret.clientId = config.clientId
            /\ last'.ret.clientSecret = config.clientSecret
            /\ last'.ret.contentBaseUrl = ENVIRONMENT_CONFIG[EnvOf(config)].contentBaseUrl
            /\ last'.ret.authBaseUrl = ENVIRONMENT_CONFIG[EnvOf(config)].authBaseUrl
            /\ last'.ret.language = (IF config.defaultLanguage = Undefined
                                     THEN ENGLISH ELSE config.defaultLanguage)
            /\ UNCHANGED cacheVars]_vars

(* ------------------- claims on what the cache returns ------------------ *)

\* The client carries both endpoints of one environment.
EndpointsOf(client, env) ==
    /\ client.contentBaseUrl = ENVIRONMENT_CONFIG[env].contentBaseUrl
    /\ client.authBaseUrl = ENVIRONMENT_CONFIG[env].authBaseUrl

\* C27: after any sequence of getQuranClient and clearClientCache calls, the
\* client getQuranClient(C) returns carries C's clientId and the content and
\* auth endpoints of C's environment (PRODUCTION when C names none); and any
\* client in the cache has its two endpoints from one environment.
C27_HandleMatchesRequest ==
    /\ (last.op = "get" /\ ~last.threw)
       => /\ last.ret.clientId = last.config.clientId
          /\ EndpointsOf(last.ret, EnvOf(last.config))
    /\ cachedClient # NullRef
       => \E env \in {PRODUCTION, PRE_PRODUCTION} : EndpointsOf(cachedClient, env)

\* Two successive requests for one clientId in different environments: the
\* second was answered with a pre-production client, the first with a
\* production one.
C27_Witness ==
    /\ SuccessiveGets
    /\ stale # {}
    /\ prev.config.clientId = last.config.clientId
    /\ EnvOf(prev.config) = PRODUCTION
    /\ EnvOf(last.config) = PRE_PRODUCTION
    /\ prev.ret.authBaseUrl = ProdAuthUrl
    /\ last.ret.authBaseUrl = PreAuthUrl
    /\ last.ret.contentBaseUrl = PreContentUrl

\* The step is the third of three successive getQuranClient calls, for the
\* target of the first and another target than the second.
ThirdOfAlternation ==
    /\ SuccessiveGets
    /\ last'.op = "get"
    /\ ~last'.threw
    /\ prev' = last
    /\ SameTarget(last'.config, prev.config)
    /\ ~SameTarget(last'.config, last.config)

\* C28: when getQuranClient is called for target F1, then for another target
\* F2, then for F1 again, the second and the third call each construct a
\* client, so that with the first call's construction three clients exist;
\* the third call returns a client that is neither the first call's nor the
\* second's, holds no token, and takes the cache.
C28_AlternationRebuilds ==
    [][ThirdOfAlternation
       => /\ last.built
          /\ last'.built
          /\ last'.ret.id # prev.ret.id
          /\ last'.ret.id # last.ret.id
          /\ last'.ret.id \notin tokens'
          /\ prev.built => allocated' = prev.ret.id + 2
          /\ cachedClient' = last'.ret]_vars

\* Two sessions initialised for the same target around a getQuranClient for
\* another target: three clients were constructed, the first session keeps
\* the first, authenticated, and the second session got the third, which
\* holds no token.
C28_Witness ==
    /\ stale = {}
    /\ allocated = 3
    /\ SuccessiveGets
    /\ prev.ret.id = 2
    /\ last.ret.id = 3
    /\ \E s1, s2 \in Sessions :
          /\ sessions[s1].ready
          /\ sessions[s2].ready
          /\ sessions[s1].quranClient.id = 1
          /\ sessions[s2].quranClient = last.ret
          /\ sessions[s1].quranEnv = sessions[s2].quranEnv
    /\ 1 \in tokens
    /\ 3 \notin tokens

(* ----------------------- claims on the sessions ------------------------ *)

\* C29: the client a session's init() obtained stays the session's client
\* whatever happens to the cache afterwards, and every tool invocation of
\* the session calls that client: when an invocation completes, the only
\* client that can have authenticated is the session's own, and the
\* invocation neither asks the cache for a client nor constructs one.
C29_HandlersKeepInitHandle ==
    [][/\ \A s \in Sessions : sessions[s].ready => sessions'[s] = sessions[s]
       /\ \A s \in Sessions :
              Completes(s)
              => /\ tokens' \subseteq tokens \cup {sessions[s].quranClient.id}
                 /\ allocated' = allocated
                 /\ returned' = returned
                 /\ last' = last
                 /\ UNCHANGED cacheVars]_vars

\* A session's client was dropped from the cache by clearClientCache, the
\* cache then got another client, and a later invocation of the session
\* still called the session's client, which holds a token again while the
\* cached client holds none.
C29_Witness ==
    \E s \in Sessions :
        /\ sessions[s].ready
        /\ prev.op = "clear"
        /\ prev.cleared = <<sessions[s].quranClient>>
        /\ last.op = "get"
        /\ last.built
        /\ cachedClient = last.ret
        /\ cachedClient # sessions[s].quranClient
        /\ sessions[s].quranClient.id \in tokens
        /\ cachedClient.id \notin tokens
        /\ \A tool \in Tools : <<s, tool>> \notin inflight

(* ------------------- claims on the unfiltered catalog ------------------ *)

\* getAvailableTranslations returned for a request without a language
\* filter whose upstream call resolved with a list.
UnfilteredCatalogServed ==
    /\ Returned("getAvailableTranslations")
    /\ Falsy(handled.params.language)
    /\ handled.upstream.settled = "resolved"
    /\ handled.upstream.value.some

\* The count shown in the heading of the n-th group.
GroupCount(text, n) ==
    LET at   == Positions(text, GroupOpen)
        open == NextAt(text, at[n], "** (")
    IN  SubSeq(text, open + 1, NextAt(text, open, " translations):\n") - 1)

\* The total shown in the header of the unfiltered catalog.
HeaderTotal(text) == SubSeq(text, 2, NextAt(text, 1, " total)\n\n") - 1)

\* The numbers of the groups that show the id.
GroupsShowing(text, id) ==
    { n \in 1..Len(GroupHeads(text)) :
          \E k \in 1..Len(GroupIds(text, n)) : GroupIds(text, n)[k] = DecStr(id) }

\* C30: in the unfiltered catalog every upstream entry is rendered exactly
\* once, in exactly one group, headed by the entry's language name
\* ("unknown" for an entry that has none); the entries of a group are in
\* upstream order; the count a group displays is the number of its entries;
\* and the total in the header is the number of upstream entries.
C30_GroupsPartitionCatalog ==
    UnfilteredCatalogServed =>
        /\ Enveloped
        /\ ~Flagged(handled.result.value)
        /\ LET text  == TextOf(handled.result.value)
               items == handled.upstream.value.items
           IN  /\ text[1] = AllHeading
               /\ HeaderTotal(text) = DecStr(Len(items))
               /\ Count(text, GroupBullet) = Len(items)
               /\ \A i \in 1..Len(items) :
                      /\ Cardinality(GroupsShowing(text, items[i].id)) = 1
                      /\ \A n \in GroupsShowing(text, items[i].id) :
                             GroupHeads(text)[n]
                                 = capitalize(LanguageNameOrUnknown(items[i]))
               /\ \A n \in 1..Len(GroupHeads(text)) :
                      LET members == SelectSeq(items,
                                         LAMBDA t : n \in GroupsShowing(text, t.id))
                      IN  /\ GroupIds(text, n)
                                 = [k \in 1..Len(members) |-> DecStr(members[k].id)]
                          /\ GroupCount(text, n) = DecStr(Len(GroupIds(text, n)))

====
